---- MODULE Spec2Model ----
(***************************************************************************)
(* A model of the annotation loaders of mirdata's tonas and da_tacos       *)
(* datasets: the record constructors (F0Data, NoteData), the format        *)
(* parsers (load_f0, load_notes, _midi_to_hz, the metadata parser, the      *)
(* feature-blob loaders) and the Track properties built on them.           *)
(*                                                                         *)
(* Numbers.  A float read from a file is modelled by an integer (the value *)
(* in a fixed small unit).  Where the code does floating-point arithmetic  *)
(* on times (load_notes) the result is rounded to MantBits significant     *)
(* bits, as IEEE-754 rounds to 53.  Frequencies in Hz are kept exact as    *)
(* k * 2^(c/1200) (see the section on _midi_to_hz).                        *)
(*                                                                         *)
(* Results.  A call either returns a value, Return(v), or raises,          *)
(* Raise(e); a field nobody has computed yet is NotCalled.                 *)
(***************************************************************************)
EXTENDS Integers, Sequences, FiniteSets, TLC

VARIABLES
    f0_file,    \* tonas: the f0 annotation file handed to load_f0 (or None)
    f0_args,    \* tonas: the arguments of a direct F0Data(...) call (or None)
    f0_result,  \* tonas: what load_f0 / F0Data(...) gave
    jam,        \* tonas: what Track.to_jams gave
    notes_file,   \* tonas: the notes annotation file handed to load_notes (or None)
    note_args,    \* tonas: the arguments of a direct NoteData(...) call (or None)
    notes_result, \* tonas: what load_notes / NoteData(...) gave
    hz_call,      \* tonas: the last direct call of _midi_to_hz and its result
    tuning_result,  \* tonas: what _load_tuning_frequency gave for notes_file
    metadata_file,  \* tonas: TONAS-Metadata.txt, its lines (or None: no such file)
    dataset_metadata,  \* tonas: what Dataset._metadata gave
    index,      \* da_tacos: the path the index gives each role of the track (or None)
    files,      \* da_tacos: the blob stored at each path (or None: no such file)
    track,      \* da_tacos: the Track's *_path attributes
    cache,      \* da_tacos: the Track's cached properties
    outcome,    \* da_tacos: what the last access of each property gave
    calls,      \* da_tacos: per thread, where its access of a cached property is
    accessed,   \* da_tacos: the cached property the threads read
    runs,       \* da_tacos: what the runs of that property's loader gave, so far
    first,      \* da_tacos: what the first access that returned gave
    subset_files,    \* da_tacos: the two subset metadata files (or None: no such file)
    dataset_metadata_index,  \* da_tacos: what Dataset._metadata gave
    tracks_index,    \* da_tacos: Dataset._index["tracks"]
    filtered,        \* da_tacos: what benchmark_tracks / coveranalysis_tracks gave
    da_track,        \* da_tacos: the attributes Track.__init__ derives from a track id
    last_read        \* the last read of a Track's metadata and what it gave

varsF0 == <<f0_file, f0_args, f0_result, jam>>
varsNotes == <<notes_file, note_args, notes_result, hz_call, tuning_result>>
varsMetadata == <<metadata_file, dataset_metadata>>
varsFeatures == <<index, files, track, cache, outcome>>
varsCalls == <<calls, accessed, runs, first>>
varsDataset == <<subset_files, dataset_metadata_index, tracks_index, filtered, da_track, last_read>>
vars == <<varsF0, varsNotes, varsMetadata, varsFeatures, varsCalls, varsDataset>>

----------------------------------------------------------------------------
(* Python values *)

None == [none |-> TRUE]
Some(v) == [none |-> FALSE, v |-> v]

NotCalled == [status |-> "unset"]
Return(v) == [status |-> "ok", value |-> v]
Raise(e) == [status |-> "raised", error |-> e]

\* the arrays of 1..n elements drawn from S
Arrays(S, n) == UNION {[1..k -> S] : k \in 1..n}
\* the array of n copies of v
Fill(n, v) == [i \in 1..n |-> v]

\* no metadata was read through a Track yet
NoRead == [op |-> "none", track_id |-> <<>>, result |-> NotCalled]

\* Each part of the model runs on its own: the other parts stay as they are
\* before anything is loaded.
IdleF0 ==
    /\ f0_file = None
    /\ f0_args = None
    /\ f0_result = NotCalled
    /\ jam = NotCalled

IdleNotes ==
    /\ notes_file = None
    /\ note_args = None
    /\ notes_result = NotCalled
    /\ hz_call = NotCalled
    /\ tuning_result = NotCalled

IdleMetadata ==
    /\ metadata_file = None
    /\ dataset_metadata = NotCalled

IdleFeatures ==
    /\ index = None
    /\ files = None
    /\ track = None
    /\ cache = None
    /\ outcome = None

IdleCalls ==
    /\ calls = None
    /\ accessed = None
    /\ runs = None
    /\ first = None

IdleDataset ==
    /\ subset_files = None
    /\ dataset_metadata_index = NotCalled
    /\ tracks_index = None
    /\ filtered = None
    /\ da_track = None
    /\ last_read = NoRead

----------------------------------------------------------------------------
(* Bounds of the model *)

MaxRows == 2    \* rows of an annotation file, elements of an array
MaxTime == 2    \* largest time stamp of an f0 row
MantBits == 7   \* significant bits of a float (53 in IEEE-754 double precision)

----------------------------------------------------------------------------
(* mirdata.annotations: the primitive validators and the base records.     *)
(* Each validator is TRUE when the check passes; the caller raises          *)
(* otherwise.                                                              *)

\* value is array-like of floats
validate_array_like(array_like) ==
    \A i \in 1..Len(array_like) : array_like[i] \in Int

\* all arrays of the group that are not None have the same length
validate_lengths_equal(array_list) ==
    \A i, j \in 1..Len(array_list) :
        (~array_list[i].none /\ ~array_list[j].none)
            => Len(array_list[i].v) = Len(array_list[j].v)

\* times are non-negative and strictly increasing
validate_times(times) ==
    /\ \A i \in 1..Len(times) : times[i] >= 0
    /\ \A i \in 1..(Len(times) - 1) : times[i] < times[i + 1]

\* annotations.F0Data.__init__(times, frequencies, confidence)
annotations_F0Data_init(times, frequencies, confidence) ==
    IF \/ ~validate_array_like(times)
       \/ ~validate_array_like(frequencies)
       \/ (~confidence.none /\ ~validate_array_like(confidence.v))
       \/ ~validate_lengths_equal(<<Some(times), Some(frequencies), confidence>>)
       \/ ~validate_times(times)
    THEN Raise("ValidationError")
    ELSE Return([times |-> times, frequencies |-> frequencies,
                 confidence |-> confidence])

----------------------------------------------------------------------------
(* tonas.F0Data *)

F0Data_init_noOwnLengthCheck(times, automatic_frequencies, frequencies, energies, confidence) ==
    LET base == annotations_F0Data_init(times, frequencies, confidence) IN
    IF base.status = "raised" THEN base
    ELSE IF ~validate_array_like(automatic_frequencies) THEN Raise("ValidationError")
    ELSE IF ~validate_array_like(energies) THEN Raise("ValidationError")
    ELSE Return([times |-> times,
                 automatic_frequencies |-> automatic_frequencies,
                 frequencies |-> frequencies,
                 energies |-> energies,
                 confidence |-> confidence])

F0Data_init(times, automatic_frequencies, frequencies, energies, confidence) ==
    LET base == annotations_F0Data_init(times, frequencies, confidence) IN
    IF base.status = "raised" THEN base
    ELSE IF ~validate_array_like(automatic_frequencies) THEN Raise("ValidationError")
    ELSE IF ~validate_array_like(energies) THEN Raise("ValidationError")
    ELSE IF ~validate_lengths_equal(<<Some(times), Some(automatic_frequencies),
                                      Some(frequencies), Some(energies), confidence>>)
         THEN Raise("ValidationError")
    ELSE Return([times |-> times,
                 automatic_frequencies |-> automatic_frequencies,
                 frequencies |-> frequencies,
                 energies |-> energies,
                 confidence |-> confidence])

----------------------------------------------------------------------------
(* tonas.load_f0 *)

\* A field of the file is the number it spells, or NonNumeric when it spells
\* none ("abc"); the float nan is NaN.  Both are codes no number of a file
\* takes.
NonNumeric == 99
NaN == -99

\* np.genfromtxt of a whitespace-separated numeric table of 4-column rows,
\* dtype float: a field that is no number is filled with nan, not refused;
\* a table of one row comes back squeezed to a 1-D array of its 4 scalars,
\* a table of several rows as a 2-D array of rows.
genfromtxt(fhandle) ==
    LET filled == [i \in 1..Len(fhandle) |->
                      [j \in 1..Len(fhandle[i]) |->
                          IF fhandle[i][j] = NonNumeric THEN NaN ELSE fhandle[i][j]]]
    IN  IF Len(filled) = 1
        THEN [ndim |-> 1, data |-> filled[1]]
        ELSE [ndim |-> 2, data |-> filled]

\* confidence.append(1.0) if float(line[3]) > 0 else confidence.append(0.0);
\* nan > 0 is False
f0_confidence_fromAutomatic(line) == IF line[3] # NaN /\ line[3] > 0 THEN 1 ELSE 0

f0_confidence(line) == IF line[4] # NaN /\ line[4] > 0 THEN 1 ELSE 0

\* Iterating a 1-D array yields scalars, and line[0] on a scalar raises
\* IndexError before any record is built.
load_f0(fhandle) ==
    LET reader == genfromtxt(fhandle)
        n == Len(reader.data)
    IN  IF reader.ndim = 1 /\ n > 0
        THEN Raise("IndexError")
        ELSE F0Data_init([i \in 1..n |-> reader.data[i][1]],
                         [i \in 1..n |-> reader.data[i][3]],
                         [i \in 1..n |-> reader.data[i][4]],
                         [i \in 1..n |-> reader.data[i][2]],
                         Some([i \in 1..n |-> f0_confidence(reader.data[i])]))

----------------------------------------------------------------------------
(* jams_utils.jams_converter and tonas.Track.to_jams *)

\* One annotation per (record, role) pair whose record is not None: the
\* record's time and value arrays and its confidence, tagged with the role.
f0s_to_jams(pair) ==
    [role |-> pair[2],
     time |-> pair[1].v.times,
     value |-> pair[1].v.frequencies,
     confidence |-> pair[1].v.confidence]

notes_to_jams(pair) ==
    [role |-> pair[2],
     time |-> pair[1].v.intervals,
     value |-> pair[1].v.notes,
     confidence |-> pair[1].v.confidence]

jams_converter(f0_data, note_data, metadata) ==
    [annotations |->
        {f0s_to_jams(f0_data[i]) :
            i \in {k \in 1..Len(f0_data) : ~f0_data[k][1].none}}
        \cup {notes_to_jams(note_data[i]) :
            i \in {k \in 1..Len(note_data) : ~note_data[k][1].none}},
     sandbox |-> metadata]

\* what a property that returned gives to_jams: the record, or None
Optional(r) == IF r.value = None THEN None ELSE Some(r.value)

\* self.f0, then self.notes: the first that raises makes to_jams raise.
to_jams(f0, notes, track_metadata) ==
    IF f0.status = "raised" THEN f0
    ELSE IF notes.status = "raised" THEN notes
    ELSE Return(jams_converter(<< <<Optional(f0), "pitch_contour">> >>,
                               << <<Optional(notes), "note_hz">> >>,
                               track_metadata))

\* the annotation of a role in an interchange structure
extract(j, role) == CHOOSE a \in j.annotations : a.role = role

----------------------------------------------------------------------------
(* Inputs of the f0 part *)

TimeVals == -1..MaxTime
EnergyVals == {3}
F0EnergyVals == EnergyVals \cup {NonNumeric}
AutoFreqVals == {0, 7}
CorrFreqVals == {-1, 0, 5}

F0Rows == {<<t, e, a, c>> : t \in TimeVals, e \in F0EnergyVals,
                            a \in AutoFreqVals, c \in CorrFreqVals}
\* the corrected-frequency column [0.0, 5.0, -1.0, 3.2] of the spec's example
ExampleF0File == << <<0, 3, 7, 0>>, <<1, 3, 0, 5>>, <<2, 3, 7, -1>>, <<3, 3, 0, 3>> >>
F0Files == Arrays(F0Rows, MaxRows) \cup {ExampleF0File}

Lengths == 1..MaxRows
F0Args ==
    {[times |-> t, automatic_frequencies |-> Fill(na, 7),
      frequencies |-> Fill(nf, 5), energies |-> Fill(ne, 3), confidence |-> c] :
        t \in Arrays(TimeVals, MaxRows), na \in Lengths, nf \in Lengths,
        ne \in Lengths, c \in {None} \cup {Some(Fill(nc, 1)) : nc \in Lengths}}

TrackMetadata == [style |-> "Debla", title |-> "T", singer |-> "S"]

----------------------------------------------------------------------------
(* The f0 part as a state machine *)

InitF0 ==
    /\ \/ f0_file \in {Some(f) : f \in F0Files} /\ f0_args = None
       \/ f0_file = None /\ f0_args \in {Some(a) : a \in F0Args}
    /\ f0_result = NotCalled
    /\ jam = NotCalled
    /\ IdleNotes /\ IdleMetadata /\ IdleFeatures
    /\ IdleCalls /\ IdleDataset

\* load_f0(fhandle)
LoadF0 ==
    /\ ~f0_file.none
    /\ f0_result' = load_f0(f0_file.v)
    /\ UNCHANGED <<f0_file, f0_args, jam, varsNotes, varsMetadata, varsFeatures,
                   varsCalls, varsDataset>>

\* F0Data(times, automatic_frequencies, frequencies, energies, confidence)
ConstructF0Data ==
    /\ ~f0_args.none
    /\ f0_result' = F0Data_init(f0_args.v.times, f0_args.v.automatic_frequencies,
                              f0_args.v.frequencies, f0_args.v.energies,
                              f0_args.v.confidence)
    /\ UNCHANGED <<f0_file, f0_args, jam, varsNotes, varsMetadata, varsFeatures,
                   varsCalls, varsDataset>>

\* Track.to_jams() of the track whose f0 was loaded (and whose notes path is
\* unset, so that Track.notes is None)
ToJams ==
    /\ ~f0_file.none
    /\ f0_result.status # "unset"
    /\ jam' = to_jams(f0_result, Return(None), TrackMetadata)
    /\ UNCHANGED <<f0_file, f0_args, f0_result, varsNotes, varsMetadata, varsFeatures,
                   varsCalls, varsDataset>>

NextF0 == LoadF0 \/ ConstructF0Data \/ ToJams

SpecF0 == InitF0 /\ [][NextF0]_vars

----------------------------------------------------------------------------
(* Floating point.  A float is an integer of at most MantBits significant  *)
(* bits times a power of two; a value that needs more bits is rounded to   *)
(* the nearest float, ties to the even significand (IEEE-754's default).   *)

Abs(x) == IF x < 0 THEN -x ELSE x

RECURSIVE BitLen(_)
BitLen(n) == IF n = 0 THEN 0 ELSE 1 + BitLen(n \div 2)

\* float(s) of a decimal field s, and the rounding of every float operation
Float(x) ==
    LET a == Abs(x)
        e == BitLen(a) - MantBits
    IN  IF e <= 0 THEN x
        ELSE LET ulp == 2 ^ e
                 q == a \div ulp
                 r == a % ulp
                 m == IF 2 * r > ulp \/ (2 * r = ulp /\ q % 2 = 1) THEN q + 1 ELSE q
             IN  (IF x < 0 THEN -1 ELSE 1) * m * ulp

\* a + b on floats
FloatAdd(a, b) == Float(a + b)

----------------------------------------------------------------------------
(* Frequencies.  Every frequency the code computes is an integer times a   *)
(* power of 2^(1/1200); it is kept exact as [k, c], standing for            *)
(* k * 2^(c/1200) with k odd, so that equal values are equal records.      *)

RECURSIVE Real(_)
\* the positive integer n
Real(n) ==
    IF n % 2 = 0
    THEN [k |-> Real(n \div 2).k, c |-> Real(n \div 2).c + 1200]
    ELSE [k |-> n, c |-> 0]

\* 2 ** (num / den), for den dividing 1200 * num
Pow2(num, den) == [k |-> 1, c |-> (1200 * num) \div den]
\* a * b
RealMul(a, b) == [k |-> a.k * b.k, c |-> a.c + b.c]
\* a / b, for b a power of two
RealDiv(a, b) == [k |-> a.k \div b.k, c |-> a.c - b.c]

----------------------------------------------------------------------------
(* tonas._midi_to_hz *)

_midi_to_hz_ignoresTuning(midi_note, tuning_deviation) ==
    LET tuning_frequency == Real(440)
    IN  RealMul(RealDiv(tuning_frequency, Real(32)), Pow2(midi_note - 9, 12))

_midi_to_hz_anchoredAt68(midi_note, tuning_deviation) ==
    LET tuning_frequency == RealMul(Real(440), Pow2(tuning_deviation, 1200))
    IN  RealMul(RealDiv(tuning_frequency, Real(32)), Pow2(midi_note - 8, 12))

_midi_to_hz(midi_note, tuning_deviation) ==
    LET tuning_frequency == RealMul(Real(440), Pow2(tuning_deviation, 1200))
    IN  RealMul(RealDiv(tuning_frequency, Real(32)), Pow2(midi_note - 9, 12))

----------------------------------------------------------------------------
(* mirdata.annotations.NoteData and tonas.NoteData *)

\* intervals are non-negative and no interval ends before it starts
validate_intervals(intervals) ==
    /\ \A i \in 1..Len(intervals) : intervals[i][1] >= 0 /\ intervals[i][2] >= 0
    /\ \A i \in 1..Len(intervals) : ~(intervals[i][2] < intervals[i][1])

\* annotations.NoteData.__init__(intervals, notes, confidence)
annotations_NoteData_init(intervals, notes, confidence) ==
    IF \/ (~confidence.none /\ ~validate_array_like(confidence.v))
       \/ ~validate_lengths_equal(<<Some(intervals), Some(notes), confidence>>)
       \/ ~validate_intervals(intervals)
    THEN Raise("ValidationError")
    ELSE Return([intervals |-> intervals, notes |-> notes,
                 confidence |-> confidence])

NoteData_init_noSuper(intervals, notes, energies, confidence) ==
    IF ~validate_array_like(energies) THEN Raise("ValidationError")
    ELSE IF ~validate_lengths_equal(<<Some(intervals), Some(notes),
                                      Some(energies), confidence>>)
         THEN Raise("ValidationError")
    ELSE Return([intervals |-> intervals, notes |-> notes,
                 energies |-> energies, confidence |-> confidence])

NoteData_init(intervals, notes, energies, confidence) ==
    LET base == annotations_NoteData_init(intervals, notes, confidence) IN
    IF base.status = "raised" THEN base
    ELSE IF ~validate_array_like(energies) THEN Raise("ValidationError")
    ELSE IF ~validate_lengths_equal(<<Some(intervals), Some(notes),
                                      Some(energies), confidence>>)
         THEN Raise("ValidationError")
    ELSE Return([intervals |-> intervals, notes |-> notes,
                 energies |-> energies, confidence |-> confidence])

----------------------------------------------------------------------------
(* tonas.load_notes.  fhandle is the csv file as a sequence of rows of     *)
(* fields: the tuning row first, then [onset, duration, midi, energy].     *)

load_notes_skipsFirstNote(fhandle) ==
    LET tuning == fhandle[1][1]
        n == Len(fhandle) - 2
        line(i) == fhandle[i + 2]
    IN  NoteData_init(
            [i \in 1..n |-> <<Float(line(i)[1]),
                              FloatAdd(Float(line(i)[1]), Float(line(i)[2]))>>],
            [i \in 1..n |-> _midi_to_hz(Float(line(i)[3]), Float(tuning))],
            [i \in 1..n |-> Float(line(i)[4])],
            Some([i \in 1..n |-> 1]))

load_notes(fhandle) ==
    LET tuning == fhandle[1][1]
        n == Len(fhandle) - 1
        line(i) == fhandle[i + 1]
    IN  NoteData_init(
            [i \in 1..n |-> <<Float(line(i)[1]),
                              FloatAdd(Float(line(i)[1]), Float(line(i)[2]))>>],
            [i \in 1..n |-> _midi_to_hz(Float(line(i)[3]), Float(tuning))],
            [i \in 1..n |-> Float(line(i)[4])],
            Some([i \in 1..n |-> 1]))

----------------------------------------------------------------------------
(* tonas._load_tuning_frequency: the first field of the first row *)

_load_tuning_frequency_ignoresCents(fhandle) ==
    LET cents_deviation == Float(fhandle[1][1])
    IN  Real(440)

_load_tuning_frequency(fhandle) ==
    LET cents_deviation == Float(fhandle[1][1])
    IN  RealMul(Real(440), Pow2(cents_deviation, 1200))

----------------------------------------------------------------------------
(* Inputs of the notes part *)

\* an onset so late that the next smaller float is 2 below it
LateOnset == 2 ^ (MantBits + 1)

Tunings == {0, 1200, -50}
OnsetVals == {-1, 0, 1, LateOnset}
DurationVals == {-1, 0, 2}
MidiVals == {57, 69}
NoteRows == {<<o, d, m, e>> : o \in OnsetVals, d \in DurationVals,
                              m \in MidiVals, e \in EnergyVals}
NotesFiles == {<< <<t>> >> \o rows : t \in Tunings, rows \in Arrays(NoteRows, MaxRows)}

IntervalVals == {<<s, e>> : s \in {-1, 0, 1}, e \in {-1, 0, 1}}
NoteArgs ==
    {[intervals |-> iv, notes |-> Fill(nn, Real(440)),
      energies |-> Fill(ne, 3), confidence |-> c] :
        iv \in Arrays(IntervalVals, MaxRows), nn \in Lengths, ne \in Lengths,
        c \in {None} \cup {Some(Fill(nc, 1)) : nc \in Lengths}}

HzCalls == {[midi_note |-> m, tuning_deviation |-> t] :
                m \in MidiVals \cup {60, 81}, t \in Tunings}

----------------------------------------------------------------------------
(* The notes part as a state machine *)

InitNotes ==
    /\ \/ notes_file \in {Some(f) : f \in NotesFiles} /\ note_args = None
       \/ notes_file = None /\ note_args \in {Some(a) : a \in NoteArgs}
       \/ notes_file = None /\ note_args = None
    /\ notes_result = NotCalled
    /\ hz_call = NotCalled
    /\ tuning_result = NotCalled
    /\ IdleF0 /\ IdleMetadata /\ IdleFeatures
    /\ IdleCalls /\ IdleDataset

\* load_notes(fhandle)
LoadNotes ==
    /\ ~notes_file.none
    /\ notes_result' = load_notes(notes_file.v)
    /\ UNCHANGED <<notes_file, note_args, hz_call, tuning_result,
                   varsF0, varsMetadata, varsFeatures,
                   varsCalls, varsDataset>>

\* NoteData(intervals, notes, energies, confidence)
ConstructNoteData ==
    /\ ~note_args.none
    /\ notes_result' = NoteData_init(note_args.v.intervals, note_args.v.notes,
                                     note_args.v.energies, note_args.v.confidence)
    /\ UNCHANGED <<notes_file, note_args, hz_call, tuning_result,
                   varsF0, varsMetadata, varsFeatures,
                   varsCalls, varsDataset>>

\* _midi_to_hz(midi_note, tuning_deviation)
MidiToHz ==
    /\ notes_file.none /\ note_args.none
    /\ \E call \in HzCalls :
          hz_call' = [status |-> "ok", args |-> call,
                      result |-> _midi_to_hz(call.midi_note, call.tuning_deviation)]
    /\ UNCHANGED <<notes_file, note_args, notes_result, tuning_result,
                   varsF0, varsMetadata, varsFeatures,
                   varsCalls, varsDataset>>

\* Track.tuning_frequency: _load_tuning_frequency(self.notes_path)
TuningFrequency ==
    /\ ~notes_file.none
    /\ tuning_result' = Return(_load_tuning_frequency(notes_file.v))
    /\ UNCHANGED <<notes_file, note_args, notes_result, hz_call,
                   varsF0, varsMetadata, varsFeatures,
                   varsCalls, varsDataset>>

NextNotes == LoadNotes \/ ConstructNoteData \/ MidiToHz \/ TuningFrequency

SpecNotes == InitNotes /\ [][NextNotes]_vars

----------------------------------------------------------------------------
(* Text.  A string is the sequence of its characters. *)

TAB == "TAB"
NUL == "NUL"
WAV == <<".", "w", "a", "v">>

RECURSIVE str_replace(_, _, _)
\* s.replace(old, new): every occurrence of old, left to right
str_replace(s, old, new) ==
    IF Len(s) < Len(old) THEN s
    ELSE IF SubSeq(s, 1, Len(old)) = old
         THEN new \o str_replace(SubSeq(s, Len(old) + 1, Len(s)), old, new)
         ELSE <<Head(s)>> \o str_replace(Tail(s), old, new)

RECURSIVE csv_split(_, _)
csv_split(s, delimiter) ==
    IF \A i \in 1..Len(s) : s[i] # delimiter
    THEN <<s>>
    ELSE LET i == CHOOSE i \in 1..Len(s) :
                      s[i] = delimiter /\ \A j \in 1..(i - 1) : s[j] # delimiter
         IN  <<SubSeq(s, 1, i - 1)>> \o csv_split(SubSeq(s, i + 1, Len(s)), delimiter)

\* one row of csv.reader(lines, delimiter=...): an empty line is a row of no
\* fields
csv_reader(line, delimiter) ==
    IF line = <<>> THEN <<>> ELSE csv_split(line, delimiter)

----------------------------------------------------------------------------
(* tonas.Dataset._metadata *)

EmptyDict == [x \in {} |-> x]

RECURSIVE metadata_loop(_, _)
\* for line in reader: ... ; a row of fewer than 4 fields raises IndexError
metadata_loop(reader, md) ==
    IF reader = <<>> THEN Return(md)
    ELSE LET line == Head(reader) IN
         IF line = <<>> THEN metadata_loop(Tail(reader), md)
         ELSE IF Len(line) < 4 THEN Raise("IndexError")
         ELSE metadata_loop(Tail(reader),
                  (str_replace(line[1], WAV, <<>>)
                      :> [style |-> line[2], title |-> line[3], singer |-> line[4]])
                  @@ md)

\* f is the file at metadata_path: its lines, or None when there is none
_metadata(f) ==
    IF f.none THEN Raise("FileNotFoundError")
    ELSE metadata_loop(
             [i \in 1..Len(f.v) |-> csv_reader(str_replace(f.v[i], <<NUL>>, <<>>), TAB)],
             EmptyDict)

----------------------------------------------------------------------------
(* Inputs of the metadata part.  A line is given by its fields and by the  *)
(* place of a stray null byte in it (0: none); LineText is its text.       *)

MaxLines == 2   \* lines of the metadata file

RECURSIVE Join(_, _)
Join(fields, sep) ==
    IF fields = <<>> THEN <<>>
    ELSE IF Len(fields) = 1 THEN fields[1]
    ELSE fields[1] \o <<sep>> \o Join(Tail(fields), sep)

LineText(l) ==
    LET text == Join(l.fields, TAB) IN
    IF l.nul = 0 THEN text
    ELSE SubSeq(text, 1, l.nul - 1) \o <<NUL>> \o SubSeq(text, l.nul, Len(text))

Filenames == { <<"0", "0">> \o WAV,
               <<"a">> \o WAV \o <<"b">> \o WAV,
               <<"a", "b">>,
               <<"a", "b">> \o WAV }
Styles == { <<"D">>, <<"M", "1">> }
Titles == { <<"T">> }
Singers == { <<"S">> }

MetadataLines ==
    {[fields |-> <<n, st, ti, si>>, nul |-> z] :
        n \in Filenames, st \in Styles, ti \in Titles, si \in Singers, z \in {0, 1, 3}}
    \cup {[fields |-> <<>>, nul |-> z] : z \in {0, 1}}
    \cup {[fields |-> <<n, st>>, nul |-> 0] : n \in {<<"a", "b">>}, st \in {<<"D">>}}

MetadataFiles == {<<>>} \cup Arrays(MetadataLines, MaxLines)

----------------------------------------------------------------------------
(* The metadata part as a state machine *)

InitMetadata ==
    /\ metadata_file \in {None} \cup {Some(f) : f \in MetadataFiles}
    /\ dataset_metadata = NotCalled
    /\ IdleF0 /\ IdleNotes /\ IdleFeatures
    /\ IdleCalls /\ IdleDataset

\* Dataset._metadata, cached once it has returned
LoadMetadata ==
    /\ dataset_metadata.status # "ok"
    /\ dataset_metadata' =
          _metadata(IF metadata_file.none THEN None
                    ELSE Some([i \in 1..Len(metadata_file.v) |->
                                  LineText(metadata_file.v[i])]))
    /\ UNCHANGED <<metadata_file, varsF0, varsNotes, varsFeatures,
                   varsCalls, varsDataset>>

NextMetadata == LoadMetadata

SpecMetadata == InitMetadata /\ [][NextMetadata]_vars

----------------------------------------------------------------------------
(* mirdata.io and mirdata.core, as da_tacos uses them *)

\* @io.coerce_to_string_io, up to the call of the decorated function: no
\* path gives None without calling it, a path with no file behind it fails in
\* open(), otherwise the function is called with the open file
coerce_to_string_io(fs, file_path_or_obj) ==
    IF file_path_or_obj.none
    THEN [call |-> FALSE, result |-> Return(None)]
    ELSE IF fs[file_path_or_obj.v].none
    THEN [call |-> FALSE, result |-> Raise("FileNotFoundError")]
    ELSE [call |-> TRUE, name |-> file_path_or_obj.v]

\* core.Track.get_path(key): the path the index gives the role, or None
get_path(idx, key) == idx[key]

\* @core.cached_property: the value once computed, else the computation
cached_property(cached, computed) ==
    IF cached.status = "ok" THEN cached ELSE computed

\* dd.io.load(name): the mapping stored in the file
dd_io_load(fs, name) == fs[name].v

\* blob[key]
getitem(blob, key) ==
    IF key \in DOMAIN blob THEN Return(blob[key]) ELSE Raise("KeyError")

----------------------------------------------------------------------------
(* da_tacos: the feature loaders *)

\* load_cens without its decorator: fhandle.name of None, dd.io.load of a
\* file that is not there
load_cens_undecorated(fs, fhandle) ==
    IF fhandle.none THEN Raise("AttributeError")
    ELSE IF fs[fhandle.v].none THEN Raise("OSError")
    ELSE getitem(dd_io_load(fs, fhandle.v), "chroma_cens")

load_cens(fs, fhandle) ==
    LET fh == coerce_to_string_io(fs, fhandle) IN
    IF fh.call THEN getitem(dd_io_load(fs, fh.name), "chroma_cens") ELSE fh.result

load_crema(fs, fhandle) ==
    LET fh == coerce_to_string_io(fs, fhandle) IN
    IF fh.call THEN getitem(dd_io_load(fs, fh.name), "crema") ELSE fh.result

load_hpcp(fs, fhandle) ==
    LET fh == coerce_to_string_io(fs, fhandle) IN
    IF fh.call THEN getitem(dd_io_load(fs, fh.name), "hpcp") ELSE fh.result

load_key_readsKey(fs, fhandle) ==
    LET fh == coerce_to_string_io(fs, fhandle) IN
    IF fh.call THEN getitem(dd_io_load(fs, fh.name), "key") ELSE fh.result

load_key(fs, fhandle) ==
    LET fh == coerce_to_string_io(fs, fhandle) IN
    IF fh.call THEN getitem(dd_io_load(fs, fh.name), "key_extractor") ELSE fh.result

load_madmom(fs, fhandle) ==
    LET fh == coerce_to_string_io(fs, fhandle) IN
    IF fh.call THEN getitem(dd_io_load(fs, fh.name), "madmom_features") ELSE fh.result

load_mfcc(fs, fhandle) ==
    LET fh == coerce_to_string_io(fs, fhandle) IN
    IF fh.call THEN getitem(dd_io_load(fs, fh.name), "mfcc_htk") ELSE fh.result

load_tags(fs, fhandle) ==
    LET fh == coerce_to_string_io(fs, fhandle) IN
    IF fh.call THEN getitem(dd_io_load(fs, fh.name), "tags") ELSE fh.result

----------------------------------------------------------------------------
(* da_tacos.Track *)

\* Track.__init__: the *_path attributes
Track_init(idx) ==
    [cens_path |-> get_path(idx, "cens"),
     crema_path |-> get_path(idx, "crema"),
     hpcp_path |-> get_path(idx, "hpcp"),
     key_path |-> get_path(idx, "key"),
     madmom_path |-> get_path(idx, "madmom"),
     mfcc_path |-> get_path(idx, "mfcc"),
     tags_path |-> get_path(idx, "tags")]

\* the cached properties, computed
cens(self, fs) == load_cens(fs, self.cens_path)
crema(self, fs) == load_crema(fs, self.crema_path)
hpcp(self, fs) == load_hpcp(fs, self.hpcp_path)
key(self, fs) == load_key(fs, self.key_path)
madmom(self, fs) == load_madmom(fs, self.madmom_path)
mfcc(self, fs) == load_mfcc(fs, self.mfcc_path)
tags(self, fs) == load_tags(fs, self.tags_path)

----------------------------------------------------------------------------
(* Inputs of the feature part *)

MaxUnavailable == 2   \* features of the track with no path or no file

Roles == {"cens", "crema", "hpcp", "key", "madmom", "mfcc", "tags"}
FeatureKeys == {"chroma_cens", "crema", "hpcp", "key_extractor",
                "madmom_features", "mfcc_htk", "tags"}
BlobKeys == FeatureKeys \cup {"label", "track_id"}
Labels == {"W_1", "W_2"}

\* the file of each role in the dataset's tree
PathOf == [cens |-> "cens/W_1_cens/P_1_cens.h5",
           crema |-> "crema/W_1_crema/P_1_crema.h5",
           hpcp |-> "hpcp/W_1_hpcp/P_1_hpcp.h5",
           key |-> "key/W_1_key/P_1_key.h5",
           madmom |-> "madmom/W_1_madmom/P_1_madmom.h5",
           mfcc |-> "mfcc/W_1_mfcc/P_1_mfcc.h5",
           tags |-> "tags/W_1_tags/P_1_tags.h5"]
Paths == {PathOf[r] : r \in Roles}

\* the blob of a file: under each key a value of its own
Blob(path, label) ==
    [k \in BlobKeys |->
        [file |-> path, key |-> k,
         content |-> IF k = "label" THEN label
                     ELSE IF k = "track_id" THEN "P_1" ELSE "values"]]

\* what a track can lack: per role, the path ("unset") or the file ("missing")
Availabilities ==
    {a \in [Roles -> {"present", "missing", "unset"}] :
        Cardinality({r \in Roles : a[r] # "present"}) <= MaxUnavailable}

----------------------------------------------------------------------------
(* The feature part as a state machine *)

InitFeatures ==
    /\ \E a \in Availabilities, label \in Labels :
          /\ index = [r \in Roles |-> IF a[r] = "unset" THEN None ELSE Some(PathOf[r])]
          /\ files = [p \in Paths |->
                        IF \E r \in Roles : PathOf[r] = p /\ a[r] = "missing"
                        THEN None ELSE Some(Blob(p, label))]
    /\ track = Track_init(index)
    /\ cache = [r \in Roles |-> NotCalled]
    /\ outcome = [r \in Roles |-> NotCalled]
    /\ IdleF0 /\ IdleNotes /\ IdleMetadata
    /\ IdleCalls /\ IdleDataset

\* reading a cached property: the value is kept once the loader has returned
Access(prop, computed) ==
    LET r == cached_property(cache[prop], computed) IN
    /\ outcome' = [outcome EXCEPT ![prop] = r]
    /\ cache' = IF r.status = "ok" THEN [cache EXCEPT ![prop] = r] ELSE cache
    /\ UNCHANGED <<index, files, track, varsF0, varsNotes, varsMetadata,
                   varsCalls, varsDataset>>

GetCens == Access("cens", cens(track, files))
GetCrema == Access("crema", crema(track, files))
GetHpcp == Access("hpcp", hpcp(track, files))
GetKey == Access("key", key(track, files))
GetMadmom == Access("madmom", madmom(track, files))
GetMfcc == Access("mfcc", mfcc(track, files))
GetTags == Access("tags", tags(track, files))

NextFeatures ==
    \/ GetCens \/ GetCrema \/ GetHpcp \/ GetKey
    \/ GetMadmom \/ GetMfcc \/ GetTags

SpecFeatures == InitFeatures /\ [][NextFeatures]_vars

----------------------------------------------------------------------------
(* One cached property of a da_tacos Track, step by step.  A read of        *)
(* track.<property> first looks the name up in the instance; when it is not  *)
(* there the property's function runs (the loader reads the file), then the  *)
(* value is stored in the instance and returned.  Another thread may run     *)
(* between any two of these steps, and the file may change at any time.      *)

\* the threads of the program
Threads == {1, 2}

\* the instance's entry for a property declared with @core.cached_property;
\* a plain @property has none, whatever was computed before
instance_lookup_asProperty(instance, prop) == NotCalled

instance_lookup(instance, prop) == instance[prop]

\* the function of each cached property
Property(prop, self, fs) ==
    CASE prop = "cens" -> cens(self, fs)
      [] prop = "crema" -> crema(self, fs)
      [] prop = "hpcp" -> hpcp(self, fs)
      [] prop = "key" -> key(self, fs)
      [] prop = "madmom" -> madmom(self, fs)
      [] prop = "mfcc" -> mfcc(self, fs)
      [] prop = "tags" -> tags(self, fs)

\* the blob after the file was written again: other values under every key
Edited(blob) == [k \in DOMAIN blob |-> [blob[k] EXCEPT !.content = "edited"]]

Waiting == [pc |-> "idle", value |-> NotCalled]

\* before Track(...): an index, the files, the threads; no instance yet
InitCalls(threads) ==
    /\ \E r \in Roles, a \in {"present", "missing", "unset"} :
          /\ accessed = r
          /\ index = [q \in Roles |->
                        IF q = r /\ a = "unset" THEN None ELSE Some(PathOf[q])]
          /\ files = [p \in Paths |->
                        IF p = PathOf[r] /\ a = "missing"
                        THEN None ELSE Some(Blob(p, "W_1"))]
    /\ track = None
    /\ cache = None
    /\ outcome = None
    /\ calls = [t \in threads |-> Waiting]
    /\ runs = {}
    /\ first = NotCalled
    /\ IdleF0 /\ IdleNotes /\ IdleMetadata /\ IdleDataset

\* Track(track_id, ...): the paths are looked up, nothing is loaded
Construct ==
    /\ track = None
    /\ track' = Track_init(index)
    /\ cache' = [r \in Roles |-> NotCalled]
    /\ UNCHANGED <<index, files, outcome, varsCalls,
                   varsF0, varsNotes, varsMetadata, varsDataset>>

\* thread t reads track.<accessed>: the instance has the value, or the
\* property's function is to be called
Lookup(t) ==
    /\ track # None
    /\ calls[t].pc = "idle"
    /\ LET found == instance_lookup(cache, accessed) IN
       IF found.status = "ok"
       THEN /\ calls' = [calls EXCEPT ![t] = [pc |-> "hit", value |-> found]]
            /\ first' = IF first.status = "ok" THEN first ELSE found
       ELSE /\ calls' = [calls EXCEPT ![t] = [pc |-> "get", value |-> NotCalled]]
            /\ first' = first
    /\ UNCHANGED <<accessed, runs, varsFeatures,
                   varsF0, varsNotes, varsMetadata, varsDataset>>

\* the property's function runs: load_<accessed>(self.<accessed>_path)
Load(t) ==
    /\ calls[t].pc = "get"
    /\ LET r == Property(accessed, track, files) IN
       /\ calls' = [calls EXCEPT ![t] =
                       [pc |-> IF r.status = "ok" THEN "store" ELSE "raised",
                        value |-> r]]
       /\ runs' = runs \cup {r}
    /\ UNCHANGED <<accessed, first, varsFeatures,
                   varsF0, varsNotes, varsMetadata, varsDataset>>

\* the value is stored in the instance and returned
Store(t) ==
    /\ calls[t].pc = "store"
    /\ cache' = [cache EXCEPT ![accessed] = calls[t].value]
    /\ calls' = [calls EXCEPT ![t] = [pc |-> "returned", value |-> calls[t].value]]
    /\ first' = IF first.status = "ok" THEN first ELSE calls[t].value
    /\ UNCHANGED <<accessed, runs, index, files, track, outcome,
                   varsF0, varsNotes, varsMetadata, varsDataset>>

\* the read is over; the thread may read again
Finish(t) ==
    /\ calls[t].pc \in {"hit", "returned", "raised"}
    /\ calls' = [calls EXCEPT ![t] = Waiting]
    /\ UNCHANGED <<accessed, runs, first, varsFeatures,
                   varsF0, varsNotes, varsMetadata, varsDataset>>

\* somebody writes the file of the property: the first blob or another
WriteFile ==
    /\ ~index[accessed].none
    /\ \E blob \in {Blob(PathOf[accessed], "W_1"), Edited(Blob(PathOf[accessed], "W_1"))} :
          /\ files[PathOf[accessed]] # Some(blob)
          /\ files' = [files EXCEPT ![PathOf[accessed]] = Some(blob)]
    /\ UNCHANGED <<index, track, cache, outcome, varsCalls,
                   varsF0, varsNotes, varsMetadata, varsDataset>>

\* somebody removes the file of the property
RemoveFile ==
    /\ ~index[accessed].none
    /\ ~files[PathOf[accessed]].none
    /\ files' = [files EXCEPT ![PathOf[accessed]] = None]
    /\ UNCHANGED <<index, track, cache, outcome, varsCalls,
                   varsF0, varsNotes, varsMetadata, varsDataset>>

NextCalls ==
    \/ Construct
    \/ \E t \in DOMAIN calls : Lookup(t) \/ Load(t) \/ Store(t) \/ Finish(t)
    \/ WriteFile
    \/ RemoveFile

\* single-threaded use
InitLazy == InitCalls({1})
SpecLazy == InitLazy /\ [][NextCalls]_vars

\* two threads
InitThreads == InitCalls(Threads)
SpecThreads == InitThreads /\ [][NextCalls]_vars

----------------------------------------------------------------------------
(* da_tacos.Dataset: the metadata index, the track ids, the subsets.  Ids   *)
(* are text (sequences of characters), as the code joins, splits and        *)
(* searches them.                                                           *)

HASH == "#"
BENCHMARK == <<"b", "e", "n", "c", "h", "m", "a", "r", "k">>
COVERANALYSIS == <<"c", "o", "v", "e", "r", "a", "n", "a", "l", "y", "s", "i", "s">>

\* subsets = ["benchmark", "coveranalysis"], and the text of each name
subsets == <<"benchmark", "coveranalysis">>
SubsetText == [benchmark |-> BENCHMARK, coveranalysis |-> COVERANALYSIS]

\* s.split(sep)
split(s, sep) == csv_split(s, sep)

\* search_key in k
contains(k, search_key) ==
    \E i \in 0..(Len(k) - Len(search_key)) :
        SubSeq(k, i + 1, i + Len(search_key)) = search_key

\* A subset metadata file, json.load-ed: the works in the order of the
\* file, each <<work_id, performances>>, the performances each
\* <<performance_id, entry>>.
RECURSIVE performance_loop(_, _, _, _)
\* for performance_id in meta[work_id].keys(): ...
performance_loop(subset, work_id, performances, metadata_index) ==
    IF performances = <<>> THEN metadata_index
    ELSE LET performance_id == Head(performances)[1]
             track_id == subset \o <<HASH>> \o work_id \o <<HASH>> \o performance_id
         IN  performance_loop(subset, work_id, Tail(performances),
                 (track_id :> Head(performances)[2]) @@ metadata_index)

RECURSIVE work_loop(_, _, _)
\* for work_id in meta.keys(): ...
work_loop(subset, meta, metadata_index) ==
    IF meta = <<>> THEN metadata_index
    ELSE work_loop(subset, Tail(meta),
             performance_loop(subset, Head(meta)[1], Head(meta)[2], metadata_index))

\* a request that goes on with the files that are there instead of raising
da_tacos_metadata_skipsMissing(fs) ==
    Return(work_loop(COVERANALYSIS,
                     IF fs[subsets[2]].none THEN <<>> ELSE fs[subsets[2]].v,
                     work_loop(BENCHMARK,
                               IF fs[subsets[1]].none THEN <<>> ELSE fs[subsets[1]].v,
                               EmptyDict)))

\* da_tacos.Dataset._metadata: both files are looked for first, then parsed
da_tacos_metadata(fs) ==
    IF \E i \in 1..Len(subsets) : fs[subsets[i]].none
    THEN Raise("FileNotFoundError")
    ELSE Return(work_loop(SubsetText[subsets[2]], fs[subsets[2]].v,
                          work_loop(SubsetText[subsets[1]], fs[subsets[1]].v,
                                    EmptyDict)))

\* Track.__init__: subset, work_id, label and performance_id from the id
Track_init_ids(track_id) ==
    LET parts == split(track_id, HASH) IN
    IF Len(parts) < 3 THEN Raise("IndexError")
    ELSE Return([track_id |-> track_id,
                 subset |-> parts[1],
                 work_id |-> parts[2],
                 label |-> parts[2],
                 performance_id |-> parts[3]])

\* Dataset.filter_index(search_key)
filter_index(tracks, search_key) ==
    [k \in {k \in DOMAIN tracks : contains(k, search_key)} |-> tracks[k]]

benchmark_tracks(tracks) == filter_index(tracks, BENCHMARK \o <<HASH>>)

coveranalysis_tracks(tracks) == filter_index(tracks, COVERANALYSIS \o <<HASH>>)

----------------------------------------------------------------------------
(* The metadata of a Track: core.Track._track_metadata and the properties   *)
(* of tonas.Track and da_tacos.Track that read it.  _track_metadata hands   *)
(* out the dataset's own entry of the track, not a copy: what a read did to *)
(* the entry it did to the dataset's mapping.                               *)

\* d.setdefault(key, ""): the lookup that leaves the key behind
dict_get_setdefault(d, k) ==
    [value |-> IF k \in DOMAIN d THEN Some(d[k]) ELSE None,
     dict |-> IF k \in DOMAIN d THEN d ELSE (k :> <<>>) @@ d]

\* d.get(key): the value or None, and d after the call
dict_get(d, k) ==
    [value |-> IF k \in DOMAIN d THEN Some(d[k]) ELSE None,
     dict |-> d]

\* core.Track._track_metadata: the entry of the track in the dataset's
\* metadata
_track_metadata(metadata, track_id) ==
    IF DOMAIN metadata = {} THEN Raise("AttributeError")
    ELSE IF track_id \in DOMAIN metadata THEN Return(metadata[track_id])
    ELSE Return(metadata)

\* self._track_metadata.get(field), from the request of the dataset's
\* metadata on: what the read gives, and the dataset's metadata after it
metadata_get(cached, computed, track_id, field) ==
    LET md == cached_property(cached, computed) IN
    IF md.status # "ok" THEN [result |-> md, metadata |-> md]
    ELSE LET tm == _track_metadata(md.value, track_id) IN
         IF tm.status # "ok" THEN [result |-> tm, metadata |-> md]
         ELSE LET got == dict_get(tm.value, field) IN
              [result |-> Return(got.value),
               metadata |-> Return([md.value EXCEPT ![track_id] = got.dict])]

\* the text of TONAS-Metadata.txt, or None
TonasText ==
    IF metadata_file.none THEN None
    ELSE Some([i \in 1..Len(metadata_file.v) |-> LineText(metadata_file.v[i])])

\* da_tacos.Track.to_jams: the ids and the features, no metadata
da_tacos_to_jams(self, features) ==
    jams_converter(<<>>, <<>>,
        [duration |-> 0, work_id |-> self.work_id,
         performance_id |-> self.performance_id, subset |-> self.subset,
         label |-> self.label, features |-> features])

----------------------------------------------------------------------------
(* Inputs of the dataset part *)

W_1 == <<"W", "_", "1">>
W_2 == <<"W", "_", "2">>
P_1 == <<"P", "_", "1">>
P_2 == <<"P", "_", "2">>

\* entries of the subset metadata files: one with every field, two that
\* lack some
EntryFull == [perf_title |-> "pt", perf_artist |-> "pa", work_title |-> "wt",
              work_artist |-> "wa", release_year |-> "1999", instrumental |-> "Yes",
              perf_artist_mbid |-> "mbid", mb_performances |-> "mb"]
EntryPartial == [perf_title |-> "pt2", work_title |-> "wt2", instrumental |-> "No"]
EntryBare == [perf_title |-> "pt3"]

BenchmarkMeta == << <<W_1, << <<P_1, EntryFull>>, <<P_2, EntryPartial>> >> >> >>
CoveranalysisMeta == << <<W_2, << <<P_1, EntryBare>> >> >> >>

\* the track ids of a pair of subset files
TrackIdsOf(fs) == DOMAIN da_tacos_metadata(fs).value
DatasetTrackIds ==
    TrackIdsOf([benchmark |-> Some(BenchmarkMeta), coveranalysis |-> Some(CoveranalysisMeta)])

TonasFile == << [fields |-> << <<"0", "0">> \o WAV, <<"D">>, <<"T">>, <<"S">> >>, nul |-> 0] >>
TonasTrackIds == { <<"0", "0">> }

----------------------------------------------------------------------------
(* The dataset part as a state machine: the metadata of both datasets is    *)
(* requested, directly or through a Track, while the metadata files come    *)
(* and go.                                                                  *)

InitDatasets ==
    /\ metadata_file \in {None, Some(TonasFile)}
    /\ dataset_metadata = NotCalled
    /\ subset_files \in {[benchmark |-> b, coveranalysis |-> c] :
                            b \in {None, Some(BenchmarkMeta)},
                            c \in {None, Some(CoveranalysisMeta)}}
    /\ dataset_metadata_index = NotCalled
    /\ tracks_index = None
    /\ filtered = None
    /\ da_track = None
    /\ last_read = NoRead
    /\ IdleF0 /\ IdleNotes /\ IdleFeatures /\ IdleCalls

\* da_tacos Dataset._metadata, cached once it has returned
LoadDaTacosMetadata ==
    /\ dataset_metadata_index.status # "ok"
    /\ dataset_metadata_index' = da_tacos_metadata(subset_files)
    /\ UNCHANGED <<subset_files, tracks_index, filtered, da_track, last_read,
                   varsF0, varsNotes, varsMetadata, varsFeatures, varsCalls>>

PutMetadataFile ==
    /\ metadata_file.none
    /\ metadata_file' = Some(TonasFile)
    /\ UNCHANGED <<dataset_metadata, varsDataset,
                   varsF0, varsNotes, varsFeatures, varsCalls>>

RemoveMetadataFile ==
    /\ ~metadata_file.none
    /\ metadata_file' = None
    /\ UNCHANGED <<dataset_metadata, varsDataset,
                   varsF0, varsNotes, varsFeatures, varsCalls>>

PutSubsetFile ==
    /\ \E i \in 1..Len(subsets) :
          /\ subset_files[subsets[i]].none
          /\ subset_files' = [subset_files EXCEPT ![subsets[i]] =
                                 Some(IF i = 1 THEN BenchmarkMeta ELSE CoveranalysisMeta)]
    /\ UNCHANGED <<dataset_metadata_index, tracks_index, filtered, da_track, last_read,
                   varsF0, varsNotes, varsMetadata, varsFeatures, varsCalls>>

RemoveSubsetFile ==
    /\ \E i \in 1..Len(subsets) :
          /\ ~subset_files[subsets[i]].none
          /\ subset_files' = [subset_files EXCEPT ![subsets[i]] = None]
    /\ UNCHANGED <<dataset_metadata_index, tracks_index, filtered, da_track, last_read,
                   varsF0, varsNotes, varsMetadata, varsFeatures, varsCalls>>

\* a tonas.Track property that is self._track_metadata.get(field)
TonasRead(op, field) ==
    /\ \E track_id \in TonasTrackIds :
          LET r == metadata_get(dataset_metadata, _metadata(TonasText), track_id, field)
          IN  /\ dataset_metadata' = r.metadata
              /\ last_read' = [op |-> op, track_id |-> track_id, result |-> r.result]
    /\ UNCHANGED <<metadata_file, subset_files, dataset_metadata_index, tracks_index,
                   filtered, da_track,
                   varsF0, varsNotes, varsFeatures, varsCalls>>

Style == TonasRead("style", "style")
Singer == TonasRead("singer", "singer")
Title == TonasRead("title", "title")

\* tonas.Track.to_jams of a track without f0 and notes files
TrackToJams ==
    /\ \E track_id \in TonasTrackIds :
          LET md == cached_property(dataset_metadata, _metadata(TonasText))
              tm == _track_metadata(md.value, track_id)
          IN  /\ dataset_metadata' = md
              /\ last_read' =
                    [op |-> "to_jams", track_id |-> track_id,
                     result |-> IF md.status # "ok" THEN md
                                ELSE IF tm.status # "ok" THEN tm
                                ELSE to_jams(Return(None), Return(None), tm.value)]
    /\ UNCHANGED <<metadata_file, subset_files, dataset_metadata_index, tracks_index,
                   filtered, da_track,
                   varsF0, varsNotes, varsFeatures, varsCalls>>

\* what a da_tacos.Track metadata property makes of the value it got
AsIs(got) == got
IsYes(got) == Some(got = Some("Yes"))

\* a da_tacos.Track property that reads self._track_metadata.get(field)
DaTacosRead(op, field, yes) ==
    /\ \E track_id \in DatasetTrackIds :
          LET r == metadata_get(dataset_metadata_index, da_tacos_metadata(subset_files),
                                track_id, field)
          IN  /\ dataset_metadata_index' = r.metadata
              /\ last_read' =
                    [op |-> op, track_id |-> track_id,
                     result |-> IF r.result.status # "ok" THEN r.result
                                ELSE IF yes THEN Return(IsYes(r.result.value))
                                ELSE Return(AsIs(r.result.value))]
    /\ UNCHANGED <<subset_files, tracks_index, filtered, da_track,
                   varsF0, varsNotes, varsMetadata, varsFeatures, varsCalls>>

WorkTitle == DaTacosRead("work_title", "work_title", FALSE)
WorkArtist == DaTacosRead("work_artist", "work_artist", FALSE)
PerformanceTitle == DaTacosRead("performance_title", "perf_title", FALSE)
PerformanceArtist == DaTacosRead("performance_artist", "perf_artist", FALSE)
ReleaseYear == DaTacosRead("release_year", "release_year", FALSE)
IsInstrumental == DaTacosRead("is_instrumental", "instrumental", TRUE)
PerformanceArtistMbid == DaTacosRead("performance_artist_mbid", "perf_artist_mbid", FALSE)
MbPerformances == DaTacosRead("mb_performances", "mb_performances", FALSE)

\* da_tacos.Track.to_jams of a track without feature files
DaTacosToJams ==
    /\ \E track_id \in DatasetTrackIds :
          last_read' = [op |-> "da_tacos_to_jams", track_id |-> track_id,
                        result |-> Return(da_tacos_to_jams(Track_init_ids(track_id).value,
                                                           None))]
    /\ UNCHANGED <<subset_files, dataset_metadata_index, tracks_index, filtered, da_track,
                   varsF0, varsNotes, varsMetadata, varsFeatures, varsCalls>>

NextDatasets ==
    \/ LoadMetadata \/ LoadDaTacosMetadata
    \/ PutMetadataFile \/ RemoveMetadataFile \/ PutSubsetFile \/ RemoveSubsetFile
    \/ Style \/ Singer \/ Title \/ TrackToJams
    \/ WorkTitle \/ WorkArtist \/ PerformanceTitle \/ PerformanceArtist
    \/ ReleaseYear \/ IsInstrumental \/ PerformanceArtistMbid \/ MbPerformances
    \/ DaTacosToJams

SpecDatasets == InitDatasets /\ [][NextDatasets]_vars

----------------------------------------------------------------------------
(* Track ids: subset files whose work ids and performance ids are any      *)
(* text, the index of their tracks, the Tracks made from the track ids and *)
(* the two subset filters.                                                 *)

\* work ids and performance ids: ids as the dataset has them, ids that hold
\* a "#", and the name of a subset as a work id
WorkIds == {W_1, <<"W">>, <<"W", "#", "1">>, BENCHMARK}
PerformanceIds == {P_1, <<"P">>, <<"1", "#", "P">>}

\* a work of one performance, as json.load gives it
OneWork(work_id, performance_id, entry) ==
    <<work_id, << <<performance_id, entry>> >> >>

\* the benchmark files: one work, or two works of different ids
BenchmarkFiles ==
    { <<OneWork(w, p, EntryFull)>> : w \in WorkIds, p \in PerformanceIds }
        \cup { <<OneWork(ws[1][1], ws[1][2], EntryFull),
                  OneWork(ws[2][1], ws[2][2], EntryPartial)>> :
                   ws \in {x \in (WorkIds \X PerformanceIds) \X (WorkIds \X PerformanceIds) :
                              x[1][1] # x[2][1]} }

\* the coveranalysis files: one work
CoveranalysisFiles == { <<OneWork(w, P_1, EntryBare)>> : w \in {W_1, BENCHMARK} }

\* self._index["tracks"]: the track ids of the dataset, each with the data
\* of its track
TracksIndexOf(fs) == [k \in TrackIdsOf(fs) |-> [path |-> k]]

InitTrackIds ==
    /\ subset_files \in {[benchmark |-> Some(b), coveranalysis |-> Some(c)] :
                            b \in BenchmarkFiles, c \in CoveranalysisFiles}
    /\ dataset_metadata_index = NotCalled
    /\ tracks_index = TracksIndexOf(subset_files)
    /\ filtered = [benchmark |-> NotCalled, coveranalysis |-> NotCalled]
    /\ da_track = NotCalled
    /\ last_read = NoRead
    /\ IdleF0 /\ IdleNotes /\ IdleMetadata /\ IdleFeatures /\ IdleCalls

\* Track(track_id, ...) for a track id of the index
DaTacosTrack ==
    /\ \E track_id \in DOMAIN tracks_index :
          da_track' = Track_init_ids(track_id)
    /\ UNCHANGED <<subset_files, dataset_metadata_index, tracks_index, filtered,
                   last_read, varsF0, varsNotes, varsMetadata, varsFeatures, varsCalls>>

\* Dataset.benchmark_tracks()
BenchmarkTracks ==
    /\ filtered' = [filtered EXCEPT !.benchmark = Return(benchmark_tracks(tracks_index))]
    /\ UNCHANGED <<subset_files, dataset_metadata_index, tracks_index, da_track,
                   last_read, varsF0, varsNotes, varsMetadata, varsFeatures, varsCalls>>

\* Dataset.coveranalysis_tracks()
CoveranalysisTracks ==
    /\ filtered' = [filtered EXCEPT !.coveranalysis =
                        Return(coveranalysis_tracks(tracks_index))]
    /\ UNCHANGED <<subset_files, dataset_metadata_index, tracks_index, da_track,
                   last_read, varsF0, varsNotes, varsMetadata, varsFeatures, varsCalls>>

NextTrackIds ==
    \/ LoadDaTacosMetadata
    \/ DaTacosTrack
    \/ BenchmarkTracks
    \/ CoveranalysisTracks

SpecTrackIds == InitTrackIds /\ [][NextTrackIds]_vars

----------------------------------------------------------------------------
(* Properties of the f0 part *)

\* the lengths of the arrays of a call that are not None
ArgLengths(a) ==
    {Len(a.times), Len(a.automatic_frequencies), Len(a.frequencies), Len(a.energies)}
        \cup (IF a.confidence.none THEN {} ELSE {Len(a.confidence.v)})

StrictlyIncreasingNonNegative(t) ==
    /\ \A i \in DOMAIN t : t[i] >= 0
    /\ \A i, j \in DOMAIN t : i < j => t[i] < t[j]

Column(file, c) == [i \in 1..Len(file) |-> file[i][c]]

\* C1: F0Data(...) returns a record only if times, automatic_frequencies,
\* frequencies, energies and a confidence that is not None all have the same
\* length; any mismatch among them raises a validation error and gives no
\* record; a confidence of None takes no part in the comparison, so a call
\* with equal lengths, valid times and confidence None returns the record.
C1_F0DataLengths ==
    (~f0_args.none /\ f0_result.status # "unset") =>
        /\ f0_result.status = "ok" => Cardinality(ArgLengths(f0_args.v)) = 1
        /\ Cardinality(ArgLengths(f0_args.v)) > 1 => f0_result = Raise("ValidationError")
        /\ ( /\ f0_args.v.confidence.none
             /\ Cardinality(ArgLengths(f0_args.v)) = 1
             /\ StrictlyIncreasingNonNegative(f0_args.v.times) )
           => /\ f0_result.status = "ok"
              /\ f0_result.value.confidence = None

\* a call without confidence whose energies are shorter than its times raised
C1_Witness ==
    /\ ~f0_args.none
    /\ f0_args.v.confidence.none
    /\ Len(f0_args.v.times) = 2
    /\ Len(f0_args.v.automatic_frequencies) = 2
    /\ Len(f0_args.v.frequencies) = 2
    /\ Len(f0_args.v.energies) = 1
    /\ StrictlyIncreasingNonNegative(f0_args.v.times)
    /\ f0_result = Raise("ValidationError")

\* C3 (as claimed): a returned PitchCurve has strictly increasing,
\* non-negative times, and load_f0 of a file whose time column repeats a
\* value, decreases or is negative raises a validation error.
C3_BadTimesRaiseValidationError ==
    /\ f0_result.status = "ok" => StrictlyIncreasingNonNegative(f0_result.value.times)
    /\ ( /\ ~f0_file.none
         /\ f0_result.status # "unset"
         /\ ~StrictlyIncreasingNonNegative(Column(f0_file.v, 1)) )
       => f0_result = Raise("ValidationError")

\* C4: whenever load_f0 returns a record, confidence[i] is 1.0 if the
\* corrected frequency (4th column) of row i is > 0 and 0.0 otherwise, for
\* every row i; the automatic frequency (3rd column) plays no part.
C4_ConfidenceFromCorrected ==
    (~f0_file.none /\ f0_result.status = "ok") =>
        /\ ~f0_result.value.confidence.none
        /\ Len(f0_result.value.confidence.v) = Len(f0_file.v)
        /\ \A i \in 1..Len(f0_file.v) :
              f0_result.value.confidence.v[i] = (IF f0_file.v[i][4] > 0 THEN 1 ELSE 0)

\* the spec's example: corrected column [0.0, 5.0, -1.0, 3.2] was loaded and
\* gave confidence [0.0, 1.0, 0.0, 1.0], against an automatic column that is
\* positive exactly where the corrected one is not
C4_Witness ==
    /\ f0_file = Some(ExampleF0File)
    /\ f0_result.status = "ok"
    /\ f0_result.value.confidence = Some(<<0, 1, 0, 1>>)
    /\ Column(ExampleF0File, 3) = <<7, 0, 7, 0>>

\* every field of the file is a number
Numeric(file) == \A i \in 1..Len(file) : \A j \in 1..Len(file[i]) : file[i][j] # NonNumeric

\* C5 (as claimed): load_f0 of a well-formed file of N >= 1 rows returns a
\* PitchCurve whose five arrays have length N, row i's columns [time, energy,
\* automatic_frequency, corrected_frequency] at index i of times, energies,
\* automatic_frequencies and frequencies; and the exported pitch_contour
\* annotation gives back the same time and frequency arrays.
C5_ParseAndRoundTrip ==
    ( /\ ~f0_file.none
      /\ Numeric(f0_file.v)
      /\ StrictlyIncreasingNonNegative(Column(f0_file.v, 1)) )
    => /\ f0_result.status # "unset" =>
            /\ f0_result.status = "ok"
            /\ f0_result.value.times = Column(f0_file.v, 1)
            /\ f0_result.value.energies = Column(f0_file.v, 2)
            /\ f0_result.value.automatic_frequencies = Column(f0_file.v, 3)
            /\ f0_result.value.frequencies = Column(f0_file.v, 4)
            /\ ~f0_result.value.confidence.none
            /\ Len(f0_result.value.confidence.v) = Len(f0_file.v)
       /\ jam.status # "unset" =>
            /\ jam.status = "ok"
            /\ extract(jam.value, "pitch_contour").time = Column(f0_file.v, 1)
            /\ extract(jam.value, "pitch_contour").value = Column(f0_file.v, 4)

\* C11 (as claimed): load_f0 of a file with a field that is no number raises
\* (the parse error of the numeric-table reader); it never returns a
\* PitchCurve built from such a file.
C11_MalformedFieldRaises ==
    (~f0_file.none /\ ~Numeric(f0_file.v) /\ f0_result.status # "unset")
        => f0_result.status = "raised"

----------------------------------------------------------------------------
(* Properties of the notes part *)

NoteRowsOf(file) == [i \in 1..(Len(file) - 1) |-> file[i + 1]]

\* C2 (as claimed): every NoteEvents record that is constructed has
\* end_time >= start_time for every interval; constructing one with an
\* interval whose end < start raises a validation error; and load_notes
\* raises a validation error on any file with a row of negative duration.
C2_NegativeDurationRaises ==
    /\ notes_result.status = "ok" =>
          \A i \in DOMAIN notes_result.value.intervals :
              notes_result.value.intervals[i][2] >= notes_result.value.intervals[i][1]
    /\ ( /\ ~note_args.none
         /\ notes_result.status # "unset"
         /\ \E i \in DOMAIN note_args.v.intervals :
               note_args.v.intervals[i][2] < note_args.v.intervals[i][1] )
       => notes_result = Raise("ValidationError")
    /\ ( /\ ~notes_file.none
         /\ notes_result.status # "unset"
         /\ \E i \in DOMAIN NoteRowsOf(notes_file.v) :
               NoteRowsOf(notes_file.v)[i][2] < 0 )
       => notes_result = Raise("ValidationError")

\* C2 (amended): as above, except that load_notes raises on the rows whose
\* end as computed, the float sum onset + duration, is below the onset; a
\* negative duration that the rounding of the sum absorbs is not rejected.
C2_EndBeforeStartRaises ==
    /\ notes_result.status = "ok" =>
          \A i \in DOMAIN notes_result.value.intervals :
              notes_result.value.intervals[i][2] >= notes_result.value.intervals[i][1]
    /\ ( /\ ~note_args.none
         /\ notes_result.status # "unset"
         /\ \E i \in DOMAIN note_args.v.intervals :
               note_args.v.intervals[i][2] < note_args.v.intervals[i][1] )
       => notes_result = Raise("ValidationError")
    /\ ( /\ ~notes_file.none
         /\ notes_result.status # "unset"
         /\ \E i \in DOMAIN NoteRowsOf(notes_file.v) :
               LET row == NoteRowsOf(notes_file.v)[i]
               IN  Float(Float(row[1]) + Float(row[2])) < Float(row[1]) )
       => notes_result = Raise("ValidationError")

\* a file whose only fault is a row [onset 1, duration -1] was refused
C2_Witness ==
    /\ ~notes_file.none
    /\ Len(notes_file.v) = 3
    /\ notes_file.v[2][1] = 0 /\ notes_file.v[2][2] = 2
    /\ notes_file.v[3][1] = 1 /\ notes_file.v[3][2] = -1
    /\ notes_result = Raise("ValidationError")

\* C6: _midi_to_hz(69, 0) = 440.0, _midi_to_hz(69, 1200) = 880.0 and
\* _midi_to_hz(57, 0) = 220.0.
C6_MidiToHzValues ==
    hz_call.status # "unset" =>
        /\ (hz_call.args.midi_note = 69 /\ hz_call.args.tuning_deviation = 0)
              => hz_call.result = [k |-> 55, c |-> 3600]
        /\ (hz_call.args.midi_note = 69 /\ hz_call.args.tuning_deviation = 1200)
              => hz_call.result = [k |-> 55, c |-> 4800]
        /\ (hz_call.args.midi_note = 57 /\ hz_call.args.tuning_deviation = 0)
              => hz_call.result = [k |-> 55, c |-> 2400]

\* _midi_to_hz(69, 1200) was called and gave 880 = 55 * 2^4
C6_Witness ==
    /\ hz_call.status # "unset"
    /\ hz_call.args = [midi_note |-> 69, tuning_deviation |-> 1200]
    /\ hz_call.result = Real(880)
    /\ Real(880) = [k |-> 55, c |-> 4800]

\* the 12-tone-equal-temperament frequency of a MIDI number, A4 = 440 Hz:
\* 440 * 2^((m - 69)/12)
EqualTemperament(m) == [k |-> 55, c |-> 3600 + 100 * (m - 69)]

\* C7: a note file parsed with a tuning offset of 0 cents gives each note the
\* equal-temperament frequency of its MIDI number, and the same rows parsed
\* with an offset of 1200 cents give each note exactly twice that frequency.
C7_TuningOffset ==
    (~notes_file.none /\ notes_result.status = "ok") =>
        LET tuning == notes_file.v[1][1]
            rows == NoteRowsOf(notes_file.v)
        IN  /\ Len(notes_result.value.notes) = Len(rows)
            /\ tuning = 0 =>
                  \A i \in DOMAIN rows :
                      notes_result.value.notes[i] = EqualTemperament(rows[i][3])
            /\ tuning = 1200 =>
                  \A i \in DOMAIN rows :
                      notes_result.value.notes[i]
                          = [k |-> EqualTemperament(rows[i][3]).k,
                             c |-> EqualTemperament(rows[i][3]).c + 1200]

\* a file of offset 1200 with the notes 57 and 69 gave 440 Hz and 880 Hz
C7_Witness ==
    /\ ~notes_file.none
    /\ notes_file.v[1][1] = 1200
    /\ Len(notes_file.v) = 3
    /\ notes_file.v[2][3] = 57 /\ notes_file.v[3][3] = 69
    /\ notes_result.status = "ok"
    /\ notes_result.value.notes = <<Real(440), Real(880)>>

\* C14: whenever load_notes returns a record for a file of 1 + N rows, the
\* record has N notes, note i coming from row 1 + i (the tuning row gives no
\* note): its interval is [onset, onset + duration] (the parser's float sum),
\* its energy the row's energy, its confidence 1.0.
C14_OneNotePerRow ==
    (~notes_file.none /\ notes_result.status = "ok") =>
        LET rows == NoteRowsOf(notes_file.v)
            N == Len(notes_file.v) - 1
            rec == notes_result.value
        IN  /\ Len(rec.intervals) = N
            /\ Len(rec.notes) = N
            /\ Len(rec.energies) = N
            /\ ~rec.confidence.none /\ Len(rec.confidence.v) = N
            /\ \A i \in 1..N :
                  /\ rec.intervals[i][1] = Float(rows[i][1])
                  /\ rec.intervals[i][2] = Float(Float(rows[i][1]) + Float(rows[i][2]))
                  /\ rec.energies[i] = Float(rows[i][4])
                  /\ rec.confidence.v[i] = 1

\* a file of the tuning row and the rows [0, 2, 57, 3], [1, 0, 69, 3] gave
\* the two notes [0, 2] and [1, 1], in this order
C14_Witness ==
    /\ notes_file = Some(<< <<-50>>, <<0, 2, 57, 3>>, <<1, 0, 69, 3>> >>)
    /\ notes_result.status = "ok"
    /\ notes_result.value.intervals = << <<0, 2>>, <<1, 1>> >>
    /\ notes_result.value.energies = <<3, 3>>
    /\ notes_result.value.confidence = Some(<<1, 1>>)

\* C15: for every note file, the tuning frequency that
\* _load_tuning_frequency returns equals the frequency load_notes gives to
\* each note of MIDI number 69 of the same file.
C15_TuningFrequencyIsA4 ==
    ( /\ ~notes_file.none
      /\ notes_result.status = "ok"
      /\ tuning_result.status = "ok" )
    => \A i \in DOMAIN NoteRowsOf(notes_file.v) :
          NoteRowsOf(notes_file.v)[i][3] = 69
              => notes_result.value.notes[i] = tuning_result.value

\* a file tuned 50 cents flat with a note 69: both parsers gave
\* 440 * 2^(-50/1200) = 55 * 2^(3550/1200)
C15_Witness ==
    /\ ~notes_file.none
    /\ notes_file.v[1][1] = -50
    /\ Len(notes_file.v) = 2
    /\ notes_file.v[2][3] = 69
    /\ notes_result.status = "ok"
    /\ tuning_result = Return([k |-> 55, c |-> 3550])
    /\ notes_result.value.notes = <<[k |-> 55, c |-> 3550]>>

----------------------------------------------------------------------------
(* Properties of the metadata part *)

\* the name without its audio extension: a trailing ".wav" is dropped
StripExtension(name) ==
    IF Len(name) >= 4 /\ SubSeq(name, Len(name) - 3, Len(name)) = WAV
    THEN SubSeq(name, 1, Len(name) - 4)
    ELSE name

\* the lines of the file that have fields
EntryLines == {i \in 1..Len(metadata_file.v) : metadata_file.v[i].fields # <<>>}

\* the metadata built from a file of well-formed lines, the key of a line
\* being Key[filename]: one entry per key, the last line of a key giving it
MetadataIs(Key) ==
    /\ dataset_metadata.status = "ok"
    /\ DOMAIN dataset_metadata.value
          = {Key[metadata_file.v[i].fields[1]] : i \in EntryLines}
    /\ \A i \in EntryLines :
          LET l == metadata_file.v[i].fields IN
          (\A j \in EntryLines : j > i => Key[metadata_file.v[j].fields[1]] # Key[l[1]])
             => dataset_metadata.value[Key[l[1]]]
                   = [style |-> l[2], title |-> l[3], singer |-> l[4]]

WellFormedMetadataFile ==
    /\ ~metadata_file.none
    /\ \A i \in EntryLines : Len(metadata_file.v[i].fields) = 4

\* C8 (as claimed): every non-empty line `filename, style, title, singer`
\* gives one entry whose key is the filename with only its trailing ".wav"
\* removed and whose value is {style, title, singer} unchanged; empty lines
\* give no entry and null bytes are removed before the fields are split.
C8_KeyIsNameWithoutExtension ==
    (WellFormedMetadataFile /\ dataset_metadata.status # "unset")
        => MetadataIs([n \in Filenames |-> StripExtension(n)])

----------------------------------------------------------------------------
(* Properties of the feature part *)

\* the key each feature is claimed to be read from
ClaimedKey == [cens |-> "chroma_cens", crema |-> "crema", hpcp |-> "hpcp",
               key |-> "key_extractor", madmom |-> "madmom_features",
               mfcc |-> "mfcc_htk", tags |-> "tags"]

\* C9: each feature property of a Track whose file is there gives exactly
\* the value stored under the feature's own key (cens: "chroma_cens", crema:
\* "crema", hpcp: "hpcp", key: "key_extractor", madmom: "madmom_features",
\* mfcc: "mfcc_htk", tags: "tags") in the file at the path of the feature's
\* own role, whatever the blob holds under its other keys.
C9_OwnKeyOwnPath ==
    \A r \in Roles :
        (outcome[r].status # "unset" /\ ~index[r].none /\ ~files[index[r].v].none)
            => outcome[r] = Return([file |-> PathOf[r], key |-> ClaimedKey[r],
                                    content |-> "values"])

\* the key feature was read from a blob labelled W_2 and gave the value
\* under "key_extractor" of the key file
C9_Witness ==
    /\ ~index["key"].none
    /\ ~files[PathOf["key"]].none
    /\ files[PathOf["key"]].v["label"].content = "W_2"
    /\ outcome["key"] = Return([file |-> PathOf["key"], key |-> "key_extractor",
                                content |-> "values"])

\* C10: a feature whose path is unset gives None and raises nothing; a
\* feature whose path is set but whose file does not exist raises a not-found
\* error and never gives None.
C10_UnsetIsNoneMissingRaises ==
    \A r \in Roles :
        outcome[r].status # "unset" =>
            /\ index[r].none => outcome[r] = Return(None)
            /\ (~index[r].none /\ files[index[r].v].none)
                  => outcome[r] = Raise("FileNotFoundError")

\* on one track, cens (no path) gave None and hpcp (no file) raised
C10_Witness ==
    /\ index["cens"].none
    /\ ~index["hpcp"].none /\ files[PathOf["hpcp"]].none
    /\ outcome["cens"] = Return(None)
    /\ outcome["hpcp"] = Raise("FileNotFoundError")

----------------------------------------------------------------------------
(* Properties of the cached properties *)

\* thread t runs the property's function in this step
Runs(t) == calls[t].pc = "get" /\ calls'[t].pc # "get"
\* the read of thread t returns in this step
Returns(t) == calls[t].pc \notin {"hit", "returned"} /\ calls'[t].pc \in {"hit", "returned"}

\* C12: constructing the Track reads no file; in single-threaded use, once a
\* read of the field has returned, the loader does not run again and every
\* later read returns the value the first one returned, whatever happens to
\* the file.
C12_ReadOnceThenCached ==
    [][ /\ (track = None /\ track' # None) => (runs' = {} /\ files' = files)
        /\ first.status = "ok" =>
              \A t \in DOMAIN calls :
                  /\ ~Runs(t)
                  /\ Returns(t) => calls'[t].value = first ]_vars

\* the file was removed after the first read; a later read found the value
\* in the instance, the value of the file as it was, after one run of the
\* loader
C12_Witness ==
    /\ DOMAIN calls = {1}
    /\ calls[1].pc = "hit"
    /\ ~index[accessed].none /\ files[PathOf[accessed]].none
    /\ calls[1].value = first
    /\ first = Return(Blob(PathOf[accessed], "W_1")[ClaimedKey[accessed]])
    /\ runs = {first}

\* no thread is between the lookup and the store
Quiet == \A t \in DOMAIN calls : calls[t].pc \notin {"get", "store"}

\* C16: with two threads reading the same field, in every interleaving: the
\* value in the instance is one a run of the loader produced; once a read has
\* returned the instance holds a value; and once no read is under way any
\* more, the value in the instance stays, no later read runs the loader and
\* every later read returns that value.  (That the loader can run twice is
\* the interleaving of C16_Witness.)
C16_CacheHoldsOneOfTheRuns ==
    /\ [](track # None =>
            /\ cache[accessed].status = "ok" => cache[accessed] \in runs
            /\ (\E t \in DOMAIN calls : calls[t].pc \in {"hit", "returned"})
                  => cache[accessed].status = "ok")
    /\ [][ (track # None /\ Quiet /\ cache[accessed].status = "ok") =>
              /\ cache'[accessed] = cache[accessed]
              /\ \A t \in DOMAIN calls :
                    /\ calls'[t].pc # "get"
                    /\ Returns(t) => calls'[t].value = cache[accessed] ]_vars

\* both threads found the instance empty and ran the loader, the file being
\* written in between: they returned different values, and the instance
\* holds the one stored last
C16_Witness ==
    /\ DOMAIN calls = {1, 2}
    /\ calls[1].pc = "returned" /\ calls[2].pc = "returned"
    /\ calls[1].value # calls[2].value
    /\ {calls[1].value, calls[2].value} \subseteq runs
    /\ cache[accessed] = calls[2].value

----------------------------------------------------------------------------
(* Properties of the dataset part *)

\* the track id of a performance
TrackId(subset, work_id, performance_id) ==
    subset \o <<"#">> \o work_id \o <<"#">> \o performance_id

\* the metadata index of the two subset files of the dataset part
FullIndex ==
    (TrackId(BENCHMARK, W_1, P_1) :> EntryFull)
    @@ (TrackId(BENCHMARK, W_1, P_2) :> EntryPartial)
    @@ (TrackId(COVERANALYSIS, W_2, P_1) :> EntryBare)

\* C13: a request of tonas metadata without TONAS-Metadata.txt raises a
\* not-found error, and so does a request of da_tacos metadata when either
\* subset file is absent; the da_tacos index that is returned or kept is
\* never partial (it holds the entries of both subsets); and a request made
\* once the files are there succeeds.
C13_MissingMetadataFileRaises ==
    /\ [](dataset_metadata_index.status = "ok"
            => dataset_metadata_index = Return(FullIndex))
    /\ [][ /\ dataset_metadata' # dataset_metadata =>
                IF metadata_file.none
                THEN dataset_metadata' = Raise("FileNotFoundError")
                ELSE dataset_metadata'.status = "ok"
           /\ dataset_metadata_index' # dataset_metadata_index =>
                IF subset_files.benchmark.none \/ subset_files.coveranalysis.none
                THEN dataset_metadata_index' = Raise("FileNotFoundError")
                ELSE dataset_metadata_index' = Return(FullIndex) ]_vars

\* with the benchmark file there and the coveranalysis file not, the request
\* of the da_tacos metadata raised and left no index; the tonas metadata was
\* built, its file being there, and a Track read its style from it
C13_Witness ==
    /\ ~subset_files.benchmark.none
    /\ subset_files.coveranalysis.none
    /\ dataset_metadata_index = Raise("FileNotFoundError")
    /\ ~metadata_file.none
    /\ dataset_metadata.status = "ok"
    /\ last_read.op = "style"
    /\ last_read.result = Return(Some(<<"D">>))

\* the field each metadata property reads
FieldOf == [style |-> "style", singer |-> "singer", title |-> "title",
            work_title |-> "work_title", work_artist |-> "work_artist",
            performance_title |-> "perf_title", performance_artist |-> "perf_artist",
            release_year |-> "release_year", is_instrumental |-> "instrumental",
            performance_artist_mbid |-> "perf_artist_mbid",
            mb_performances |-> "mb_performances"]

\* this step is a read, through a da_tacos Track, of a field its entry lacks
ReadsAbsentField ==
    /\ last_read' # last_read
    /\ last_read'.op \in DOMAIN FieldOf
    /\ last_read'.track_id \in DOMAIN FullIndex
    /\ FieldOf[last_read'.op] \notin DOMAIN FullIndex[last_read'.track_id]
    /\ last_read'.result.status = "ok"

\* once built, neither dataset's metadata changes, whatever is read
MetadataUnchanged ==
    /\ dataset_metadata.status = "ok" => dataset_metadata' = dataset_metadata
    /\ dataset_metadata_index.status = "ok"
          => dataset_metadata_index' = dataset_metadata_index

\* C17 (as claimed): after it is built the metadata mapping of a dataset and
\* every entry of it stay as they are, whatever Track operations run, and
\* reading a metadata field that is absent returns None and adds no key.
C17_AbsentFieldIsNone ==
    [][ /\ MetadataUnchanged
        /\ ReadsAbsentField => last_read'.result = Return(None) ]_vars

\* C17 (amended): as above, except that is_instrumental, which compares the
\* field with "Yes", returns False for an absent field.
C17_MetadataNeverMutated ==
    [][ /\ MetadataUnchanged
        /\ ReadsAbsentField =>
              last_read'.result = (IF last_read'.op = "is_instrumental"
                                   THEN Return(Some(FALSE)) ELSE Return(None)) ]_vars

\* release_year was read from an entry that has none: None came back and
\* the index is the one that was built
C17_Witness ==
    /\ last_read.op = "release_year"
    /\ last_read.track_id = TrackId(BENCHMARK, W_1, P_2)
    /\ last_read.result = Return(None)
    /\ dataset_metadata_index = Return(FullIndex)
    /\ dataset_metadata.status = "ok"

----------------------------------------------------------------------------
(* Properties of the track ids *)

\* the (subset, work_id, performance_id) of a pair of subset files
TriplesOf(fs) ==
    UNION { UNION { { <<SubsetText[subsets[n]], fs[subsets[n]].v[i][1],
                        fs[subsets[n]].v[i][2][j][1]>> :
                          j \in 1..Len(fs[subsets[n]].v[i][2]) } :
                      i \in 1..Len(fs[subsets[n]].v) } :
              n \in 1..Len(subsets) }

\* the text has no "#"
NoHash(s) == \A i \in 1..Len(s) : s[i] # "#"

\* the search key is in the track id at its start and nowhere else
OnlyAtStart(k, search_key) ==
    \A i \in 0..(Len(k) - Len(search_key)) :
        SubSeq(k, i + 1, i + Len(search_key)) = search_key => i = 0

\* neither "benchmark#" nor "coveranalysis#" is in the track id but at its start
SubsetOnlyAtStart(k) ==
    /\ OnlyAtStart(k, BENCHMARK \o <<"#">>)
    /\ OnlyAtStart(k, COVERANALYSIS \o <<"#">>)

\* both filters have returned
BothFiltered ==
    /\ filtered.benchmark.status = "ok"
    /\ filtered.coveranalysis.status = "ok"

\* the subset that Track derives from the track id
SubsetOf(k) == Track_init_ids(k).value.subset

\* the track of id k is in the result of the filter of its subset, with the
\* data the index has for it, and not in the other result
InItsSubset(k) ==
    /\ (k \in DOMAIN filtered.benchmark.value) <=> (SubsetOf(k) = BENCHMARK)
    /\ (k \in DOMAIN filtered.coveranalysis.value) <=> (SubsetOf(k) = COVERANALYSIS)
    /\ (k \in DOMAIN filtered.benchmark.value)
           # (k \in DOMAIN filtered.coveranalysis.value)
    /\ \A n \in 1..Len(subsets) :
           k \in DOMAIN filtered[subsets[n]].value
               => filtered[subsets[n]].value[k] = tracks_index[k]

\* C18: benchmark_tracks() and coveranalysis_tracks() are disjoint, cover the
\* index together, and each track of the index is in the result of the
\* subset that Track derives from its track id
C18_SubsetsPartitionTheIndex ==
    BothFiltered =>
        /\ DOMAIN filtered.benchmark.value \cap DOMAIN filtered.coveranalysis.value = {}
        /\ DOMAIN filtered.benchmark.value \cup DOMAIN filtered.coveranalysis.value
               = DOMAIN tracks_index
        /\ \A k \in DOMAIN tracks_index : InItsSubset(k)

\* Where the filters do partition: each track of the index in whose id
\* "benchmark#" and "coveranalysis#" are nowhere but at the start is in
\* exactly one of the two results, the one of the subset that Track derives
\* from its track id, and no result has a track that the index has not.
CleanIdsPartition ==
    BothFiltered =>
        /\ DOMAIN filtered.benchmark.value \cup DOMAIN filtered.coveranalysis.value
               \subseteq DOMAIN tracks_index
        /\ \A k \in DOMAIN tracks_index : SubsetOnlyAtStart(k) => InItsSubset(k)

\* both filters have returned for an index of a benchmark track and a
\* coveranalysis track of ids that have the subset at the start only, and
\* each result is the one track of its subset
CleanIdsFiltered ==
    /\ BothFiltered
    /\ DOMAIN tracks_index = {TrackId(BENCHMARK, W_1, P_1), TrackId(COVERANALYSIS, W_1, P_1)}
    /\ \A k \in DOMAIN tracks_index : SubsetOnlyAtStart(k)
    /\ DOMAIN filtered.benchmark.value = {TrackId(BENCHMARK, W_1, P_1)}
    /\ DOMAIN filtered.coveranalysis.value = {TrackId(COVERANALYSIS, W_1, P_1)}

\* the Track made from the key of the triple has the ids of the triple
RoundTrip(t) ==
    (da_track.status # "unset" /\ Track_init_ids(TrackId(t[1], t[2], t[3])) = da_track)
        => /\ da_track.status = "ok"
           /\ da_track.value.subset = t[1]
           /\ da_track.value.work_id = t[2]
           /\ da_track.value.label = t[2]
           /\ da_track.value.performance_id = t[3]

\* C19: every (subset, work_id, performance_id) of the subset files has its
\* key subset#work_id#performance_id in the metadata index, Track splits the
\* key back into that subset, work_id (the label too) and performance_id,
\* and no two triples have the same key
C19_TrackIdRoundTrip ==
    dataset_metadata_index.status = "ok" =>
        \A t \in TriplesOf(subset_files) :
            /\ TrackId(t[1], t[2], t[3]) \in DOMAIN dataset_metadata_index.value
            /\ RoundTrip(t)
            /\ \A u \in TriplesOf(subset_files) :
                   u # t => TrackId(u[1], u[2], u[3]) # TrackId(t[1], t[2], t[3])

\* Where the round trip does hold: the key of a triple whose work_id and
\* performance_id have no "#" is split back into the triple, and is the key
\* of no other triple of the files.
TrackIdRoundTripNoHash ==
    dataset_metadata_index.status = "ok" =>
        \A t \in TriplesOf(subset_files) :
            /\ TrackId(t[1], t[2], t[3]) \in DOMAIN dataset_metadata_index.value
            /\ (NoHash(t[2]) /\ NoHash(t[3])) =>
                   /\ RoundTrip(t)
                   /\ \A u \in TriplesOf(subset_files) :
                          u # t => TrackId(u[1], u[2], u[3]) # TrackId(t[1], t[2], t[3])

\* the metadata index of two benchmark works and a coveranalysis work, none
\* of an id with "#", is built and has the three keys, and the Track of the
\* second benchmark work was made from its key
NoHashTrackMade ==
    /\ dataset_metadata_index.status = "ok"
    /\ TriplesOf(subset_files) = { <<BENCHMARK, W_1, P_1>>, <<BENCHMARK, <<"W">>, <<"P">> >>,
                                   <<COVERANALYSIS, BENCHMARK, P_1>> }
    /\ Cardinality(DOMAIN dataset_metadata_index.value) = 3
    /\ da_track.status = "ok"
    /\ da_track.value.track_id = TrackId(BENCHMARK, <<"W">>, <<"P">>)
    /\ da_track.value.work_id = <<"W">>
    /\ da_track.value.performance_id = <<"P">>

====
